---- MODULE Spec2Model ----
(***************************************************************************)
(* A model of the GUG intermediate representation: the operation and       *)
(* signature vocabulary (component/operation, component/wire_type), the    *)
(* graph container Gug with its type-erased metadata store (gug.rs) and    *)
(* the rewrite protocol (rewrite.rs, Gug::apply_rewrite).                  *)
(*                                                                         *)
(* f64 values are modelled as records [nan, v]: either NaN or an exact     *)
(* number; arithmetic on them is exact (no rounding is modelled).          *)
(***************************************************************************)
EXTENDS Integers, Sequences, FiniteSets, TLC

VARIABLES
    graph,          \* Gug.graph: the connectivity of self (live nodes, port owners)
    op_types,       \* Gug.op_types: SecondaryMap<NodeIndex, Op>
    port_types,     \* Gug.port_types: SecondaryMap<PortIndex, WireType>
    node_metadata,  \* Gug.node_metadata: HashMap<TypeId, SecondaryMap<NodeIndex, _>>
    port_metadata,  \* Gug.port_metadata: HashMap<TypeId, SecondaryMap<PortIndex, _>>
    replacement,    \* apply_rewrite's local `replacement`: the parts Gug
    rewrite,        \* apply_rewrite's local `rewrite`: subgraph + open graph
    node_map,       \* old -> new pairs of the node-inserted events so far
    port_map,       \* old -> new pairs of the port-inserted events so far
    pc,             \* position inside apply_rewrite
    result,         \* what apply_rewrite returned
    pre,            \* the tables of self and of the parts when apply_rewrite began
    call,           \* the last call made, its arguments and what it returned
    ncalls          \* how many calls were made

vars == <<graph, op_types, port_types, node_metadata, port_metadata,
          replacement, rewrite, node_map, port_map, pc, result, pre, call, ncalls>>

gugvars == <<graph, op_types, port_types, node_metadata, port_metadata>>

rwvars == <<replacement, rewrite, node_map, port_map, pc, result, pre>>

(***************************************************************************)
(* Bounds of the model.                                                    *)
(***************************************************************************)
MaxCopies == 2      \* n_copies of a Copy ranges over 0..MaxCopies
MaxX == 6           \* approx_eq: x and y range over -MaxX..MaxX half units
MaxMod == 3         \* approx_eq: modulo ranges over 0..MaxMod
MaxTol == 3         \* approx_eq: tol ranges over 0..MaxTol half units
MaxNode == 2        \* node indices are 0..MaxNode-1
MaxPort == 2        \* port indices are 0..MaxPort-1
MaxVal == 1         \* a metadata value is one of 0..MaxVal, 0 the default
MaxCalls == 4       \* calls made on one Gug through its public methods

None == [some |-> FALSE]
Some(v) == [some |-> TRUE, v |-> v]

(***************************************************************************)
(* component/wire_type.rs                                                  *)
(***************************************************************************)
WireType ==
    {"Qubit", "LinearBit", "Bool", "I64", "F64", "Quat64", "Angle", "SideEffects"}

WireType_default == "Qubit"

\* f64: a number or NaN.
F(x) == [nan |-> FALSE, v |-> x]
NaN == [nan |-> TRUE, v |-> 0]
F64Vals == {F(0), F(1), NaN}

\* f64's PartialEq: NaN is equal to nothing, itself included.
f64_eq(a, b) == ~a.nan /\ ~b.nan /\ a.v = b.v

\* Rational(Rational64): a reduced fraction, compared field by field.
RationalVals == {[numer |-> 1, denom |-> 2], [numer |-> 1, denom |-> 1]}

AngleValues ==
    [kind : {"F64"}, f : F64Vals] \cup [kind : {"Rational"}, r : RationalVals]

\* #[derive(PartialEq)] for AngleValue.
AngleValue_eq(a, b) ==
    /\ a.kind = b.kind
    /\ IF a.kind = "F64" THEN f64_eq(a.f, b.f) ELSE a.r = b.r

\* Quat(cgmath::Quaternion<f64>): scalar part s and vector part v.
QuatVals ==
    { [s |-> F(1), v |-> <<F(0), F(0), F(0)>>],
      [s |-> F(0), v |-> <<F(1), F(0), F(0)>>],
      [s |-> NaN, v |-> <<F(0), F(0), F(0)>>] }

\* #[derive(PartialEq)] for Quat.
Quat_eq(a, b) ==
    /\ f64_eq(a.s, b.s)
    /\ \A i \in 1..3 : f64_eq(a.v[i], b.v[i])

ConstValue ==
    [kind : {"Bool"}, b : BOOLEAN]
        \cup [kind : {"I64"}, i : {0, 1}]
        \cup [kind : {"F64"}, f : F64Vals]
        \cup [kind : {"Angle"}, angle : AngleValues]
        \cup [kind : {"Quat64"}, quat : QuatVals]

\* #[derive(PartialEq)] for ConstValue.
ConstValue_eq(a, b) ==
    /\ a.kind = b.kind
    /\ CASE a.kind = "Bool" -> a.b = b.b
         [] a.kind = "I64" -> a.i = b.i
         [] a.kind = "F64" -> f64_eq(a.f, b.f)
         [] a.kind = "Angle" -> AngleValue_eq(a.angle, b.angle)
         [] a.kind = "Quat64" -> Quat_eq(a.quat, b.quat)

get_type(c) ==
    CASE c.kind = "Bool" -> "Bool"
      [] c.kind = "I64" -> "I64"
      [] c.kind = "F64" -> "F64"
      [] c.kind = "Angle" -> "Angle"
      [] c.kind = "Quat64" -> "Quat64"

Signature_new(linear, nonlinear) == [linear |-> linear, nonlinear |-> nonlinear]

new_linear(linear) == [linear |-> linear, nonlinear |-> << <<>>, <<>> >>]

new_nonlinear(inputs, outputs) == [linear |-> <<>>, nonlinear |-> <<inputs, outputs>>]

Signature_default == [linear |-> <<>>, nonlinear |-> << <<>>, <<>> >>]

num_ports(sig) ==
    << Len(sig.linear) + Len(sig.nonlinear[1]),
       Len(sig.linear) + Len(sig.nonlinear[2]) >>

\* vec![typ], whatever n is.
Repeat_once(typ, n) == <<typ>>

\* vec![typ; n]
Repeat(typ, n) == [i \in 1..n |-> typ]

(***************************************************************************)
(* component/operation/circuit.rs                                          *)
(***************************************************************************)
PlainTags ==
    {"H", "T", "S", "X", "Y", "Z", "Tadj", "Sadj", "CX", "ZZMax", "Reset",
     "Input", "Output", "Measure", "Barrier", "AngleAdd", "AngleMul",
     "AngleNeg", "QuatMul", "RxF64", "RzF64", "TK1", "Rotation",
     "ToRotation", "Xor"}

Plain(t) == [tag |-> t]
Noop(typ) == [tag |-> "Noop", typ |-> typ]
Copy(n, typ) == [tag |-> "Copy", n_copies |-> n, typ |-> typ]
Const(value) == [tag |-> "Const", value |-> value]
Select(typ) == [tag |-> "Select", typ |-> typ]

CircuitOp ==
    {Plain(t) : t \in PlainTags}
        \cup {Noop(typ) : typ \in WireType}
        \cup {Copy(n, typ) : n \in 0..MaxCopies, typ \in WireType}
        \cup {Const(c) : c \in ConstValue}
        \cup {Select(typ) : typ \in WireType}

\* core::mem::discriminant of a circuit::Op: the variant, without its payload.
circuit_discriminant(op) == op.tag

\* circuit::Op's eq with a catch-all arm that answers false.
circuit_Op_eq_no_discriminant(l, r) ==
    CASE l.tag = "Noop" /\ r.tag = "Noop" -> l.typ = r.typ
      [] l.tag = "Copy" /\ r.tag = "Copy" ->
            l.n_copies = r.n_copies /\ l.typ = r.typ
      [] l.tag = "Const" /\ r.tag = "Const" -> ConstValue_eq(l.value, r.value)
      [] OTHER -> FALSE

\* impl PartialEq for circuit::Op
circuit_Op_eq(l, r) ==
    CASE l.tag = "Noop" /\ r.tag = "Noop" -> l.typ = r.typ
      [] l.tag = "Copy" /\ r.tag = "Copy" ->
            l.n_copies = r.n_copies /\ l.typ = r.typ
      [] l.tag = "Const" /\ r.tag = "Const" -> ConstValue_eq(l.value, r.value)
      [] OTHER -> circuit_discriminant(l) = circuit_discriminant(r)

\* impl Default for circuit::Op
circuit_Op_default == Noop("Qubit")

ONEQBSIG == new_linear(<<"Qubit">>)

TWOQBSIG == new_linear(<<"Qubit", "Qubit">>)

binary_op(typ) == new_nonlinear(<<typ, typ>>, <<typ>>)

\* circuit::Op::signature
circuit_Op_signature(op) ==
    CASE op.tag = "Noop" -> new_linear(<<op.typ>>)
      [] op.tag \in {"H", "Reset", "T", "S", "Tadj", "Sadj", "X", "Y", "Z"} -> ONEQBSIG
      [] op.tag \in {"CX", "ZZMax"} -> TWOQBSIG
      [] op.tag = "Measure" -> new_linear(<<"Qubit", "LinearBit">>)
      [] op.tag \in {"AngleAdd", "AngleMul"} -> binary_op("Angle")
      [] op.tag = "QuatMul" -> binary_op("Quat64")
      [] op.tag = "AngleNeg" -> new_nonlinear(<<"Angle">>, <<"Angle">>)
      [] op.tag = "Copy" -> new_nonlinear(<<op.typ>>, Repeat(op.typ, op.n_copies))
      [] op.tag = "Const" -> new_nonlinear(<<>>, <<get_type(op.value)>>)
      [] op.tag \in {"RxF64", "RzF64"} ->
            Signature_new(<<"Qubit">>, << <<"Angle">>, <<>> >>)
      [] op.tag = "TK1" ->
            Signature_new(<<"Qubit">>, << Repeat("Angle", 3), <<>> >>)
      [] op.tag = "Rotation" ->
            Signature_new(<<"Qubit">>, << <<"Quat64">>, <<>> >>)
      [] op.tag = "ToRotation" ->
            new_nonlinear(<<"Angle", "F64", "F64", "F64">>, <<"Quat64">>)
      [] op.tag = "Xor" -> new_nonlinear(<<"Bool", "Bool">>, <<"Bool">>)
      [] op.tag = "Select" ->
            new_nonlinear(<<"Bool", op.typ, op.typ>>, <<op.typ>>)
      [] OTHER -> Signature_default

\* approx_eq(x, y, modulo, tol), with x, y and tol counted in half units (the
\* real numbers x/2, y/2, tol/2) and modulo a u32.  With modulo = 0 the
\* division yields an infinity or NaN, r is NaN and both comparisons fail.
\* approx_eq without the reduction of the difference into [0, modulo).
approx_eq_unreduced(x, y, modulo, tol) ==
    IF modulo = 0
    THEN FALSE
    ELSE LET m == 2 * modulo
             r == x - y
         IN  r < tol \/ r > m - tol

approx_eq(x, y, modulo, tol) ==
    IF modulo = 0
    THEN FALSE
    ELSE LET m == 2 * modulo                 \* f64::from(modulo), in half units
             fl == (x - y) \div m            \* ((x - y) / modulo).floor()
             r == (x - y) - m * fl           \* modulo * (x - x.floor())
         IN  r < tol \/ r > m - tol

(***************************************************************************)
(* component/operation/mod.rs                                              *)
(***************************************************************************)
ControlFlowOp == {"Conditional", "Loop"}

\* Two extension types implementing CustomOp: "Plain" keeps the trait's
\* default eq, "Comparing" overrides it by downcasting the other side and
\* comparing the definitions (here: an id).
CustomImpl == {"Plain", "Comparing"}

CustomOp == [impl : CustomImpl, id : {0, 1}]

\* CustomOp::eq, dispatched on the concrete type of self.
CustomOp_eq(self, other) ==
    IF self.impl = "Plain"
    THEN FALSE                                           \* the default body
    ELSE other.impl = "Comparing" /\ other.id = self.id  \* an override

Circuit(op) == [variant |-> "Circuit", op |-> op]
ControlFlow(op) == [variant |-> "ControlFlow", cf |-> op]
Opaque(op) == [variant |-> "Opaque", custom |-> op]

Op ==
    {Circuit(c) : c \in CircuitOp}
        \cup {ControlFlow(c) : c \in ControlFlowOp}
        \cup {Opaque(c) : c \in CustomOp}

\* core::mem::discriminant of an Op: ControlFlow, Circuit or Opaque.
discriminant(op) == op.variant

\* impl PartialEq for Op
Op_eq(self, other) ==
    IF self.variant = "Opaque" /\ other.variant = "Opaque"
    THEN CustomOp_eq(self.custom, other.custom)
    ELSE discriminant(self) = discriminant(other)

\* impl Default for Op
Op_default == Circuit(circuit_Op_default)

\* CustomOp::signature of the two extension types: each declares one.
CustomOp_signature(op) == new_linear(Repeat("Qubit", op.id))

\* Op::signature
Op_signature(op) ==
    CASE op.variant = "Circuit" -> circuit_Op_signature(op.op)
      [] op.variant = "Opaque" -> CustomOp_signature(op.custom)
      [] OTHER -> Signature_default

\* #[derive(Clone)]: a clone is a new value with the same variant and payload.
Clone(op) == op

(***************************************************************************)
(* gug.rs: the graph container                                             *)
(***************************************************************************)
NodeIndex == 0..(MaxNode - 1)
PortIndex == 0..(MaxPort - 1)
Val == 0..MaxVal

\* The metadata types extension code registers: node-keyed and port-keyed.
NodeMetaTypes == {"A", "B"}
PortMetaTypes == {"P"}

\* T::default() of a metadata type.
MetaDefault(T) == 0

\* SecondaryMap::with_default(d): every index reads d until it is written.
with_default(Index, d) == [i \in Index |-> d]

\* PortGraph::default(): no node, no port.
PortGraph_default == [nodes |-> {}, port_node |-> [p \in {} |-> 0]]

\* PortGraph: the live nodes and, for each live port, the node that owns it.
\* The connectivities of the model: k nodes, node p owning port p.
Graphs ==
    { [nodes |-> 0..(k - 1), port_node |-> [p \in {q \in PortIndex : q < k} |-> p]] :
        k \in 0..MaxNode }

num_node_ports(g, node) == Cardinality({p \in DOMAIN g.port_node : g.port_node[p] = node})

\* The operations the calls of the model pass to set_optype.
OpInputs ==
    { Op_default, Circuit(Plain("H")), Circuit(Copy(MaxCopies, "Bool")),
      ControlFlow("Loop"), Opaque([impl |-> "Plain", id |-> 1]) }

\* An insert that replaces the table of a type already registered.
or_insert_reset(map, key, value) ==
    [k \in DOMAIN map \cup {key} |-> IF k = key THEN value ELSE map[k]]

\* HashMap::entry(key).or_insert(value)
or_insert(map, key, value) ==
    IF key \in DOMAIN map THEN map ELSE map @@ (key :> value)

\* Gug::optype
optype(node) == op_types[node]

\* Gug::signature
signature(node) == Op_signature(optype(node))

\* A lookup that answers the default value for a type never registered.
metadata_get_or_default(map, T, i) ==
    IF T \notin DOMAIN map THEN Some(MetaDefault(T)) ELSE Some(map[T][i])

\* Gug::node_metadata / node_metadata_mut / port_metadata / port_metadata_mut:
\* the `?` on the lookup of the type's table, then the entry of the handle.
metadata_get(map, T, i) ==
    IF T \notin DOMAIN map THEN None ELSE Some(map[T][i])

\* HashMap::default(): no type is registered.
NoTables == [T \in {} |-> {}]

NoCall == [fn |-> "none"]

\* No old -> new pair yet.
NoMap == [i \in {} |-> 0]

\* The variables of a rewrite when none is running.
NoRewrite ==
    /\ replacement = None
    /\ rewrite = None
    /\ node_map = NoMap
    /\ port_map = NoMap
    /\ pc = "idle"
    /\ result = None
    /\ pre = None

\* Gug::new() over a connectivity of the engine.
GugNew ==
    /\ graph \in Graphs \ {PortGraph_default}
    /\ op_types = with_default(NodeIndex, Op_default)
    /\ port_types = with_default(PortIndex, WireType_default)
    /\ node_metadata = NoTables
    /\ port_metadata = NoTables

Called == ncalls < MaxCalls /\ ncalls' = ncalls + 1

\* Gug::register_node_metadata::<T>()
register_node_metadata(T) ==
    /\ Called
    /\ node_metadata' =
          or_insert(node_metadata, T, with_default(NodeIndex, MetaDefault(T)))
    /\ call' = [fn |-> "register_node_metadata", t |-> T,
                already |-> T \in DOMAIN node_metadata]
    /\ UNCHANGED <<graph, op_types, port_types, port_metadata>>
    /\ UNCHANGED rwvars

\* Gug::register_port_metadata::<T>()
register_port_metadata(T) ==
    /\ Called
    /\ port_metadata' =
          or_insert(port_metadata, T, with_default(PortIndex, MetaDefault(T)))
    /\ call' = [fn |-> "register_port_metadata", t |-> T,
                already |-> T \in DOMAIN port_metadata]
    /\ UNCHANGED <<graph, op_types, port_types, node_metadata>>
    /\ UNCHANGED rwvars

\* A store that overwrites the operation of every node.
set_optype_store_all(table, node, op) == [n \in DOMAIN table |-> op]

\* self.op_types[node] = op
set_optype_store(table, node, op) == [table EXCEPT ![node] = op]

\* Gug::set_optype(node, op)
set_optype(node, op) ==
    /\ Called
    /\ op_types' = set_optype_store(op_types, node, op)
    /\ call' = [fn |-> "set_optype", node |-> node, op |-> op]
    /\ UNCHANGED <<graph, port_types, node_metadata, port_metadata>>
    /\ UNCHANGED rwvars

\* Gug::optype(node) and Gug::signature(node), read by a caller
read_optype(node) ==
    /\ Called
    /\ call' = [fn |-> "optype", node |-> node, out |-> optype(node),
                sig |-> signature(node)]
    /\ UNCHANGED gugvars
    /\ UNCHANGED rwvars

\* Gug::node_metadata::<T>(node)
read_node_metadata(T, node) ==
    /\ Called
    /\ call' = [fn |-> "node_metadata", t |-> T, i |-> node,
                out |-> metadata_get(node_metadata, T, node)]
    /\ UNCHANGED gugvars
    /\ UNCHANGED rwvars

\* Gug::port_metadata::<T>(port)
read_port_metadata(T, port) ==
    /\ Called
    /\ call' = [fn |-> "port_metadata", t |-> T, i |-> port,
                out |-> metadata_get(port_metadata, T, port)]
    /\ UNCHANGED gugvars
    /\ UNCHANGED rwvars

\* Gug::node_metadata_mut::<T>(node), and the caller storing v through the
\* reference when there is one.
write_node_metadata(T, node, v) ==
    /\ Called
    /\ LET out == metadata_get(node_metadata, T, node)
       IN  /\ call' = [fn |-> "node_metadata_mut", t |-> T, i |-> node, out |-> out]
           /\ node_metadata' =
                 IF out.some
                 THEN [node_metadata EXCEPT ![T][node] = v]
                 ELSE node_metadata
    /\ UNCHANGED <<graph, op_types, port_types, port_metadata>>
    /\ UNCHANGED rwvars

\* Gug::port_metadata_mut::<T>(port), and the caller storing v through the
\* reference when there is one.
write_port_metadata(T, port, v) ==
    /\ Called
    /\ LET out == metadata_get(port_metadata, T, port)
       IN  /\ call' = [fn |-> "port_metadata_mut", t |-> T, i |-> port, out |-> out]
           /\ port_metadata' =
                 IF out.some
                 THEN [port_metadata EXCEPT ![T][port] = v]
                 ELSE port_metadata
    /\ UNCHANGED <<graph, op_types, port_types, node_metadata>>
    /\ UNCHANGED rwvars

\* The specification of one Gug used through its public methods.
InitApi ==
    /\ GugNew
    /\ NoRewrite
    /\ call = NoCall
    /\ ncalls = 0

NextApi ==
    \/ \E T \in NodeMetaTypes : register_node_metadata(T)
    \/ \E T \in PortMetaTypes : register_port_metadata(T)
    \/ \E node \in NodeIndex, op \in OpInputs : set_optype(node, op)
    \/ \E node \in NodeIndex : read_optype(node)
    \/ \E T \in NodeMetaTypes, node \in NodeIndex : read_node_metadata(T, node)
    \/ \E T \in PortMetaTypes, port \in PortIndex : read_port_metadata(T, port)
    \/ \E T \in NodeMetaTypes, node \in NodeIndex, v \in Val :
          write_node_metadata(T, node, v)
    \/ \E T \in PortMetaTypes, port \in PortIndex, v \in Val :
          write_port_metadata(T, port, v)

SpecApi == InitApi /\ [][NextApi]_vars

(***************************************************************************)
(* The equality of operations, applied to pairs of operations.             *)
(***************************************************************************)
\* A default Gug that no call touches, for the specifications of the pure
\* functions.
Untouched ==
    /\ graph = PortGraph_default
    /\ op_types = with_default(NodeIndex, Op_default)
    /\ port_types = with_default(PortIndex, WireType_default)
    /\ node_metadata = NoTables
    /\ port_metadata = NoTables
    /\ NoRewrite
    /\ ncalls = 0

InitEq ==
    /\ Untouched
    /\ \/ \E l \in Op, r \in Op :
             call = [fn |-> "input", ty |-> "Op", lhs |-> l, rhs |-> r]
       \/ \E l \in CircuitOp, r \in CircuitOp :
             call = [fn |-> "input", ty |-> "circuit::Op", lhs |-> l, rhs |-> r]

\* lhs == rhs
eq(ty, l, r) == IF ty = "Op" THEN Op_eq(l, r) ELSE circuit_Op_eq(l, r)

EqCall ==
    /\ call.fn = "input"
    /\ call' = [call EXCEPT !.fn = "eq"] @@ ("out" :> eq(call.ty, call.lhs, call.rhs))
    /\ UNCHANGED <<gugvars, rwvars, ncalls>>

\* lhs == lhs.clone(), as in tests::equality
CloneEqCall ==
    /\ call.fn = "input"
    /\ LET c == Clone(call.lhs)
       IN  call' = [fn |-> "clone_eq", ty |-> call.ty, lhs |-> call.lhs, rhs |-> c,
                    out |-> eq(call.ty, call.lhs, c)]
    /\ UNCHANGED <<gugvars, rwvars, ncalls>>

NextEq == EqCall \/ CloneEqCall

SpecEq == InitEq /\ [][NextEq]_vars

(***************************************************************************)
(* approx_eq, applied to bounded arguments.                                *)
(***************************************************************************)
InitApprox ==
    /\ Untouched
    /\ \E x \in (-MaxX)..MaxX, y \in (-MaxX)..MaxX, m \in 0..MaxMod, tol \in 0..MaxTol :
          call = [fn |-> "input", x |-> x, y |-> y, modulo |-> m, tol |-> tol]

ApproxEqCall ==
    /\ call.fn = "input"
    /\ call' = [call EXCEPT !.fn = "approx_eq"]
                  @@ ("out" :> approx_eq(call.x, call.y, call.modulo, call.tol))
    /\ UNCHANGED <<gugvars, rwvars, ncalls>>

NextApprox == ApproxEqCall

SpecApprox == InitApprox /\ [][NextApprox]_vars

(***************************************************************************)
(* Properties of the equality of operations (SpecEq).                      *)
(***************************************************************************)
\* The equality contract as stated: same variant, and equal payloads for the
\* variants Noop, Copy and Const.
ContractCircuitEq(l, r) ==
    /\ l.tag = r.tag
    /\ (l.tag = "Noop" => l.typ = r.typ)
    /\ (l.tag = "Copy" => l.n_copies = r.n_copies /\ l.typ = r.typ)
    /\ (l.tag = "Const" => ConstValue_eq(l.value, r.value))

ContractOpEq(l, r) ==
    /\ l.variant = r.variant
    /\ CASE l.variant = "Circuit" -> ContractCircuitEq(l.op, r.op)
         [] l.variant = "ControlFlow" -> l.cf = r.cf
         [] l.variant = "Opaque" -> CustomOp_eq(l.custom, r.custom)

\* C1: a == b holds iff a and b are the same variant and, for Noop, Copy and
\* Const, carry equal payloads; Ops holding different circuit operations are
\* unequal, as circuit ops and when wrapped as a node's Op.
C1_EqualityContract ==
    call.fn = "eq" =>
        (call.out <=> IF call.ty = "Op"
                      THEN ContractOpEq(call.lhs, call.rhs)
                      ELSE ContractCircuitEq(call.lhs, call.rhs))

\* Whether a constant holds a NaN.
HasNaN(c) ==
    CASE c.kind = "F64" -> c.f.nan
      [] c.kind = "Angle" -> c.angle.kind = "F64" /\ c.angle.f.nan
      [] c.kind = "Quat64" -> c.quat.s.nan \/ \E i \in 1..3 : c.quat.v[i].nan
      [] OTHER -> FALSE

\* The operations that differ from their own clone: an opaque operation that
\* keeps CustomOp's default eq, and a circuit constant holding a NaN.
DiffersFromClone(ty, o) ==
    IF ty = "Op"
    THEN o.variant = "Opaque" /\ o.custom.impl = "Plain"
    ELSE o.tag = "Const" /\ HasNaN(o.value)

\* C2 as stated: o == o.clone() for every operation o, an opaque operation
\* that keeps the default eq included.
C2_CloneEqualAlways == call.fn = "clone_eq" => call.out

\* C2, amended: o == o.clone() for every operation o except an opaque
\* operation that keeps the default eq and a constant holding a NaN, for
\* which it is false.
C2_CloneEqual ==
    call.fn = "clone_eq" => (call.out <=> ~DiffersFromClone(call.ty, call.lhs))

C2_Witness ==
    /\ call.fn = "clone_eq"
    /\ call.ty = "circuit::Op"
    /\ call.lhs.tag = "Copy"
    /\ call.lhs.n_copies = MaxCopies
    /\ call.out

(***************************************************************************)
(* Properties of approx_eq (SpecApprox); x, y and tol are in half units.   *)
(***************************************************************************)
\* C10 as stated: approx_eq(x, x, m, tol) for every m >= 1 and tol >= 0;
\* approx_eq(0, m, m, tol) for tol > 0; not approx_eq(0, m/2, m, tol) when
\* m > 2 * tol.
C10_ApproxEqAnyTol ==
    (call.fn = "approx_eq" /\ call.modulo >= 1) =>
        /\ (call.x = call.y => call.out)
        /\ (call.x = 0 /\ call.y = 2 * call.modulo /\ call.tol > 0 => call.out)
        /\ (call.x = 0 /\ call.y = call.modulo /\ call.modulo > call.tol => ~call.out)

\* C10, amended: approx_eq(x, x, m, tol) for every m >= 1 and tol > 0, and not
\* for tol = 0; approx_eq(0, m, m, tol) for tol > 0; not
\* approx_eq(0, m/2, m, tol) when m > 2 * tol.
C10_ApproxEq ==
    (call.fn = "approx_eq" /\ call.modulo >= 1) =>
        /\ (call.x = call.y => (call.out <=> call.tol > 0))
        /\ (call.x = 0 /\ call.y = 2 * call.modulo /\ call.tol > 0 => call.out)
        /\ (call.x = 0 /\ call.y = call.modulo /\ call.modulo > call.tol => ~call.out)

C10_Witness ==
    /\ call.fn = "approx_eq"
    /\ call.modulo = MaxMod
    /\ call.x = 0
    /\ call.y = 2 * call.modulo
    /\ call.tol > 0
    /\ call.out

(***************************************************************************)
(* Properties of the public methods of a Gug (SpecApi).                    *)
(***************************************************************************)
\* C5: registering a metadata type that is already registered leaves the
\* whole graph unchanged: every stored value of that type and of the other
\* types is still there.
C5_RegisterIdempotent ==
    [][ (/\ call'.fn \in {"register_node_metadata", "register_port_metadata"}
         /\ call'.already)
        => UNCHANGED gugvars ]_vars

C5_Witness ==
    /\ call.fn = "register_node_metadata"
    /\ call.already
    /\ \E node \in NodeIndex : node_metadata[call.t][node] # MetaDefault(call.t)

\* C6: a typed accessor returns None exactly when the type was never
\* registered and the stored value otherwise; a read accessor and a mutable
\* accessor that returned None leave the graph as it was, and no accessor
\* registers a type.
C6_AbsentWhenUnregistered ==
    [][ /\ call'.fn \in {"node_metadata", "node_metadata_mut"} =>
            /\ call'.out.some <=> call'.t \in DOMAIN node_metadata
            /\ call'.out.some => call'.out.v = node_metadata[call'.t][call'.i]
            /\ (call'.fn = "node_metadata" \/ ~call'.out.some) => UNCHANGED gugvars
            /\ DOMAIN node_metadata' = DOMAIN node_metadata
        /\ call'.fn \in {"port_metadata", "port_metadata_mut"} =>
            /\ call'.out.some <=> call'.t \in DOMAIN port_metadata
            /\ call'.out.some => call'.out.v = port_metadata[call'.t][call'.i]
            /\ (call'.fn = "port_metadata" \/ ~call'.out.some) => UNCHANGED gugvars
            /\ DOMAIN port_metadata' = DOMAIN port_metadata
      ]_vars

C6_Witness ==
    /\ call.fn = "node_metadata_mut"
    /\ ~call.out.some
    /\ call.t \notin DOMAIN node_metadata
    /\ DOMAIN node_metadata # {}
    /\ ncalls = MaxCalls

\* C9: set_optype(node, op) makes optype(node) = op and signature(node) =
\* op.signature() and changes nothing else (no other node's operation, no
\* wire type, no metadata, no port of the connectivity); no other method
\* changes an operation, and a node never set reads the default, Noop(Qubit).
C9_SetOptypeFrame ==
    /\ \A node \in NodeIndex :
          optype(node) = [variant |-> "Circuit", op |-> [tag |-> "Noop", typ |-> "Qubit"]]
    /\ [][ /\ call'.fn = "set_optype" =>
               /\ op_types'[call'.node] = call'.op
               /\ Op_signature(op_types'[call'.node]) = Op_signature(call'.op)
               /\ \A n \in NodeIndex \ {call'.node} : op_types'[n] = op_types[n]
               /\ UNCHANGED <<graph, port_types, node_metadata, port_metadata>>
           /\ call'.fn # "set_optype" => op_types' = op_types
         ]_vars

C9_Witness ==
    /\ call.fn = "set_optype"
    /\ call.op = Circuit(Copy(MaxCopies, "Bool"))
    /\ optype(call.node) = call.op
    /\ num_ports(signature(call.node)) = <<1, MaxCopies>>
    /\ num_node_ports(graph, call.node) # 1 + MaxCopies
    /\ \E n \in NodeIndex \ {call.node} : optype(n) # Op_default

(***************************************************************************)
(* rewrite.rs and Gug::apply_rewrite                                       *)
(***************************************************************************)
\* A Gug as a value: the fields of the struct.
GugValue(g, ops, ports, nmeta, pmeta) ==
    [graph |-> g, op_types |-> ops, port_types |-> ports,
     node_metadata |-> nmeta, port_metadata |-> pmeta]

\* self, as a value.
Self == GugValue(graph, op_types, port_types, node_metadata, port_metadata)

\* The operation tables of the graphs of a rewrite: H and X alternate over
\* the live nodes, from the one `first` selects.
OpTables(live, first) ==
    { [n \in NodeIndex |->
          IF n \notin live THEN Op_default
          ELSE IF (n + c) % 2 = 0 THEN Circuit(Plain("H")) ELSE Circuit(Plain("X"))] :
      c \in first }

\* The metadata stores a sequence of register and write calls builds over the
\* handles `live`: any set of registered types, each left at its default or
\* written with MaxVal at every live handle.
MetaStores(Types, Index, live) ==
    UNION { { [T \in R |-> [i \in Index |-> IF i \in live THEN v[T] ELSE MetaDefault(T)]] :
                v \in [R -> {0, MaxVal}] } :
            R \in SUBSET Types }

\* The Gugs a sequence of set_optype, register and write calls builds over
\* the connectivity g.  No method stores into port_types.
Gugs(g, first) ==
    { GugValue(g, ops, with_default(PortIndex, WireType_default), nmeta, pmeta) :
        ops \in OpTables(g.nodes, first),
        nmeta \in MetaStores(NodeMetaTypes, NodeIndex, g.nodes),
        pmeta \in MetaStores(PortMetaTypes, PortIndex, DOMAIN g.port_node) }

\* OpenGug::into_parts: the open graph, and the Gug left without its graph.
OpenGug_into_parts(open) ==
    << [graph |-> open.gug.graph,
        dangling_inputs |-> open.dangling_inputs,
        dangling_outputs |-> open.dangling_outputs],
       [open.gug EXCEPT !.graph = PortGraph_default] >>

\* Rewrite::new(subgraph, open_graph)
Rewrite_new(subgraph, open_graph) ==
    [subgraph |-> subgraph, replacement |-> open_graph, to_remove |-> subgraph.nodes]

\* GugRewrite::into_parts
GugRewrite_into_parts(rw) ==
    LET parts == OpenGug_into_parts(rw.replacement)
    IN  << Rewrite_new(rw.subgraph, parts[1]), parts[2] >>

\* The replacement fragments of the model: an open Gug whose first port may
\* dangle as an input.
OpenGugs ==
    UNION { { [gug |-> gug, dangling_inputs |-> din, dangling_outputs |-> <<>>] :
                gug \in Gugs(g, {0, 1}),
                din \in {<<>>} \cup {<<p>> : p \in {q \in DOMAIN g.port_node : q = 0}} } :
            g \in Graphs }

\* The selections of the model: any set of live nodes, or the last node handle
\* alone (live or not), with the port of the first selected node, when it has
\* one, as the incoming boundary edge.
BoundedSubgraphs ==
    { [nodes |-> S,
       incoming |-> IF S # {} /\ (CHOOSE n \in S : \A m \in S : n <= m) \in PortIndex
                    THEN << CHOOSE n \in S : \A m \in S : n <= m >>
                    ELSE <<>>,
       outgoing |-> <<>>] :
      S \in SUBSET graph.nodes \cup {{MaxNode - 1}} }

\* GugRewrite::new, over the selections and fragments of the model.  The
\* engine's storage holds MaxNode nodes and MaxPort ports: the rewrite is one
\* whose result fits.
GugRewrites ==
    IF pc # "idle" THEN {} ELSE
    { rw \in [subgraph : BoundedSubgraphs, replacement : OpenGugs] :
        LET g == rw.replacement.gug.graph
            keptNodes == graph.nodes \ rw.subgraph.nodes
            keptPorts == {p \in DOMAIN graph.port_node : graph.port_node[p] \in keptNodes}
        IN  /\ Cardinality(keptNodes) + Cardinality(g.nodes) <= MaxNode
            /\ Cardinality(keptPorts) + Cardinality(DOMAIN g.port_node) <= MaxPort }

Min(S) == CHOOSE x \in S : \A y \in S : x <= y

\* Gug::apply_rewrite, entered: the rewrite is taken apart.
apply_rewrite(rw) ==
    /\ pc = "idle"
    /\ LET parts == GugRewrite_into_parts(rw)
       IN  /\ rewrite' = parts[1]
           /\ replacement' = parts[2]
           /\ pre' = [self |-> Self, parts |-> parts[2]]
    /\ pc' = "engine"
    /\ call' = [fn |-> "apply_rewrite"]
    /\ UNCHANGED <<gugvars, node_map, port_map, result, ncalls>>

\* The engine's check of the rewrite, before it changes the graph: the
\* selection names live nodes, and its boundary has the arity of the
\* fragment's.
engine_valid ==
    /\ rewrite.subgraph.nodes \subseteq graph.nodes
    /\ Len(rewrite.subgraph.incoming) = Len(rewrite.replacement.dangling_inputs)
    /\ Len(rewrite.subgraph.outgoing) = Len(rewrite.replacement.dangling_outputs)

\* Rewrite::apply_with_callbacks refuses the rewrite; apply_rewrite returns
\* the engine's error.
engine_reject ==
    /\ pc = "engine"
    /\ ~engine_valid
    /\ result' = Some("RewriteError")
    /\ pc' = "done"
    /\ UNCHANGED <<gugvars, replacement, rewrite, node_map, port_map, pre, call, ncalls>>

engine_accept ==
    /\ pc = "engine"
    /\ engine_valid
    /\ pc' = "running"
    /\ UNCHANGED <<gugvars, replacement, rewrite, node_map, port_map, result, pre, call, ncalls>>

\* The ports of the next node to remove that are still in the graph.
ports_to_remove ==
    IF rewrite.to_remove = {}
    THEN {}
    ELSE {p \in DOMAIN graph.port_node : graph.port_node[p] = Min(rewrite.to_remove)}

\* The engine removes a port of a selected node and calls port_removed,
\* the closure |_| {}.
port_removed(port) ==
    /\ pc = "running"
    /\ ports_to_remove # {}
    /\ port = Min(ports_to_remove)
    /\ graph' = [graph EXCEPT
                   !.port_node = [p \in DOMAIN graph.port_node \ {port} |-> graph.port_node[p]]]
    /\ call' = [fn |-> "port_removed", port |-> port]
    /\ UNCHANGED <<op_types, port_types, node_metadata, port_metadata>>
    /\ UNCHANGED <<replacement, rewrite, node_map, port_map, pc, result, pre, ncalls>>

\* The engine removes a selected node and calls node_removed, the closure
\* |_| {}.
node_removed(node) ==
    /\ pc = "running"
    /\ rewrite.to_remove # {}
    /\ ports_to_remove = {}
    /\ node = Min(rewrite.to_remove)
    /\ graph' = [graph EXCEPT !.nodes = @ \ {node}]
    /\ rewrite' = [rewrite EXCEPT !.to_remove = @ \ {node}]
    /\ call' = [fn |-> "node_removed", node |-> node]
    /\ UNCHANGED <<op_types, port_types, node_metadata, port_metadata>>
    /\ UNCHANGED <<replacement, node_map, port_map, pc, result, pre, ncalls>>

\* A swap of the two tables, not of the two entries.
swap_tables(a, new, b, old) == b

\* A swap that reads the other table at the handle `new`.
swap_into_same_handle(a, new, b, old) == [a EXCEPT ![new] = b[new]]

\* std::mem::swap(&mut a[new], &mut b[old]), the side of a.
swap_into(a, new, b, old) == [a EXCEPT ![new] = b[old]]

\* The loop storing the replacement's entry at the handle `old` of self.
swap_metadata_self_at_old(self_meta, new, repl_meta, old) ==
    [T \in DOMAIN self_meta |->
        IF T \in DOMAIN repl_meta
        THEN swap_into(self_meta[T], old, repl_meta[T], old)
        ELSE self_meta[T]]

\* The loop over replacement.*_metadata: each type the replacement registered
\* is exchanged when self registered it too.  The side of self.
swap_metadata_self(self_meta, new, repl_meta, old) ==
    [T \in DOMAIN self_meta |->
        IF T \in DOMAIN repl_meta
        THEN swap_into(self_meta[T], new, repl_meta[T], old)
        ELSE self_meta[T]]

\* The loop copying into self and leaving the replacement as it was.
swap_metadata_repl_kept(self_meta, new, repl_meta, old) == repl_meta

\* The same loop, the side of the replacement.
swap_metadata_repl(self_meta, new, repl_meta, old) ==
    [T \in DOMAIN repl_meta |->
        IF T \in DOMAIN self_meta
        THEN swap_into(repl_meta[T], old, self_meta[T], new)
        ELSE repl_meta[T]]

\* The nodes and ports of the fragment the engine has yet to insert.
nodes_to_insert == rewrite.replacement.graph.nodes \ DOMAIN node_map

ports_to_insert == DOMAIN rewrite.replacement.graph.port_node \ DOMAIN port_map

\* The engine adds the fragment's node `old` to the graph at a free index
\* `new` and calls the closure node_inserted(old, new).
node_inserted(old, new) ==
    /\ pc = "running"
    /\ rewrite.to_remove = {}
    /\ nodes_to_insert # {}
    /\ old = Min(nodes_to_insert)
    /\ new \notin graph.nodes
    /\ graph' = [graph EXCEPT !.nodes = @ \cup {new}]
    /\ node_map' = node_map @@ (old :> new)
    /\ op_types' = swap_into(op_types, new, replacement.op_types, old)
    /\ node_metadata' =
          swap_metadata_self(node_metadata, new, replacement.node_metadata, old)
    /\ replacement' =
          [replacement EXCEPT
             !.op_types = swap_into(@, old, op_types, new),
             !.node_metadata = swap_metadata_repl(node_metadata, new, @, old)]
    /\ call' = [fn |-> "node_inserted", old |-> old, new |-> new]
    /\ UNCHANGED <<port_types, port_metadata, rewrite, port_map, pc, result, pre, ncalls>>

\* The engine adds the fragment's port `old` to the graph at a free index
\* `new`, on the node its owner became, and calls the closure
\* port_inserted(old, new).
port_inserted(old, new) ==
    /\ pc = "running"
    /\ rewrite.to_remove = {}
    /\ nodes_to_insert = {}
    /\ ports_to_insert # {}
    /\ old = Min(ports_to_insert)
    /\ new \notin DOMAIN graph.port_node
    /\ graph' = [graph EXCEPT
                   !.port_node = @ @@ (new :> node_map[rewrite.replacement.graph.port_node[old]])]
    /\ port_map' = port_map @@ (old :> new)
    /\ port_types' = swap_into(port_types, new, replacement.port_types, old)
    /\ port_metadata' =
          swap_metadata_self(port_metadata, new, replacement.port_metadata, old)
    /\ replacement' =
          [replacement EXCEPT
             !.port_types = swap_into(@, old, port_types, new),
             !.port_metadata = swap_metadata_repl(port_metadata, new, @, old)]
    /\ call' = [fn |-> "port_inserted", old |-> old, new |-> new]
    /\ UNCHANGED <<op_types, node_metadata, rewrite, node_map, pc, result, pre, ncalls>>

\* The engine is done; apply_rewrite returns its Ok(()).
apply_rewrite_return ==
    /\ pc = "running"
    /\ rewrite.to_remove = {}
    /\ nodes_to_insert = {}
    /\ ports_to_insert = {}
    /\ result' = Some("Ok")
    /\ pc' = "done"
    /\ UNCHANGED <<gugvars, replacement, rewrite, node_map, port_map, pre, call, ncalls>>

\* The specification of one apply_rewrite on a Gug built through its methods.
InitRewrite ==
    /\ \E g \in Graphs \ {PortGraph_default} : \E gug \in Gugs(g, {0}) :
          /\ graph = gug.graph
          /\ op_types = gug.op_types
          /\ port_types = gug.port_types
          /\ node_metadata = gug.node_metadata
          /\ port_metadata = gug.port_metadata
    /\ NoRewrite
    /\ call = NoCall
    /\ ncalls = 0

NextRewrite ==
    \/ \E rw \in GugRewrites : apply_rewrite(rw)
    \/ engine_reject
    \/ engine_accept
    \/ \E port \in PortIndex : port_removed(port)
    \/ \E node \in NodeIndex : node_removed(node)
    \/ \E old \in NodeIndex, new \in NodeIndex : node_inserted(old, new)
    \/ \E old \in PortIndex, new \in PortIndex : port_inserted(old, new)
    \/ apply_rewrite_return

SpecRewrite == InitRewrite /\ [][NextRewrite]_vars

(***************************************************************************)
(* Properties of apply_rewrite (SpecRewrite).                              *)
(***************************************************************************)
Range(f) == {f[x] : x \in DOMAIN f}

\* Whether the typed accessor reads v: metadata::<T>(i) == Some(v).
Reads(map, T, i, v) ==
    LET r == metadata_get(map, T, i) IN r.some /\ r.v = v

Absent(map, T, i) == ~metadata_get(map, T, i).some

\* C3 as stated: after node-inserted(old, new), for every node-metadata type
\* registered on the replacement, node_metadata::<T>(new) of the target reads
\* the value the replacement held at old, whether or not the target had
\* registered T; the same for port-inserted and port-metadata types.
C3_TransplantAlways ==
    pre # None =>
        /\ \A old \in DOMAIN node_map : \A T \in DOMAIN pre.parts.node_metadata :
              Reads(node_metadata, T, node_map[old], pre.parts.node_metadata[T][old])
        /\ \A old \in DOMAIN port_map : \A T \in DOMAIN pre.parts.port_metadata :
              Reads(port_metadata, T, port_map[old], pre.parts.port_metadata[T][old])

\* C3, amended: the value is transplanted for every type registered on both
\* the replacement and the target; a type registered on the replacement
\* alone is skipped, and the target's accessor still answers None for it.
C3_Transplant ==
    pre # None =>
        /\ \A old \in DOMAIN node_map : \A T \in DOMAIN pre.parts.node_metadata :
              IF T \in DOMAIN pre.self.node_metadata
              THEN Reads(node_metadata, T, node_map[old], pre.parts.node_metadata[T][old])
              ELSE Absent(node_metadata, T, node_map[old])
        /\ \A old \in DOMAIN port_map : \A T \in DOMAIN pre.parts.port_metadata :
              IF T \in DOMAIN pre.self.port_metadata
              THEN Reads(port_metadata, T, port_map[old], pre.parts.port_metadata[T][old])
              ELSE Absent(port_metadata, T, port_map[old])

C3_Witness ==
    /\ result = Some("Ok")
    /\ \E old \in DOMAIN node_map : \E T \in DOMAIN pre.parts.node_metadata :
          /\ T \in DOMAIN pre.self.node_metadata
          /\ old # node_map[old]
          /\ pre.parts.node_metadata[T][old] # pre.self.node_metadata[T][node_map[old]]
          /\ Reads(node_metadata, T, node_map[old], pre.parts.node_metadata[T][old])
    /\ \E old \in DOMAIN port_map : \E T \in DOMAIN pre.parts.port_metadata :
          /\ pre.parts.port_metadata[T][old] # MetaDefault(T)
          /\ Reads(port_metadata, T, port_map[old], pre.parts.port_metadata[T][old])

\* C4: a node (or port) a rewrite inserts, whose replacement did not register
\* a type T the target registered, reads the default T: never the value of a
\* removed node that had the same index.
C4_InsertedReadsDefault ==
    pre # None =>
        /\ \A old \in DOMAIN node_map :
              \A T \in DOMAIN pre.self.node_metadata \ DOMAIN pre.parts.node_metadata :
                 Reads(node_metadata, T, node_map[old], MetaDefault(T))
        /\ \A old \in DOMAIN port_map :
              \A T \in DOMAIN pre.self.port_metadata \ DOMAIN pre.parts.port_metadata :
                 Reads(port_metadata, T, port_map[old], MetaDefault(T))

\* The place of n in S, counted from 0.
Rank(S, n) == Cardinality({m \in S : m < n})

\* The ports of the selected region, before the rewrite.
RegionPorts ==
    {p \in DOMAIN pre.self.graph.port_node :
        pre.self.graph.port_node[p] \in rewrite.subgraph.nodes}

\* The replacement has the ops, the wire types and the boundary of the
\* selected region, node by node and port by port in the order of the handles.
SameAsRegion ==
    /\ Cardinality(rewrite.subgraph.nodes) = Cardinality(rewrite.replacement.graph.nodes)
    /\ \A n \in rewrite.subgraph.nodes :
          pre.parts.op_types[Rank(rewrite.subgraph.nodes, n)] = pre.self.op_types[n]
    /\ Cardinality(RegionPorts) = Cardinality(DOMAIN rewrite.replacement.graph.port_node)
    /\ \A p \in RegionPorts :
          pre.parts.port_types[Rank(RegionPorts, p)] = pre.self.port_types[p]
    /\ Len(rewrite.subgraph.incoming) = Len(rewrite.replacement.dangling_inputs)
    /\ Len(rewrite.subgraph.outgoing) = Len(rewrite.replacement.dangling_outputs)

\* C7: apply_rewrite changes the Op, WireType and metadata of the target only
\* at the handles reported as inserted, and registers no type; and when the
\* replacement is the same as the selected region, the nodes and ports that
\* replace the region hold, in the order the engine reports them, the ops and
\* wire types the region held.
C7_RewriteFrame ==
    pre # None =>
        /\ DOMAIN node_metadata = DOMAIN pre.self.node_metadata
        /\ DOMAIN port_metadata = DOMAIN pre.self.port_metadata
        /\ \A n \in NodeIndex \ Range(node_map) :
              /\ op_types[n] = pre.self.op_types[n]
              /\ \A T \in DOMAIN node_metadata :
                    node_metadata[T][n] = pre.self.node_metadata[T][n]
        /\ \A p \in PortIndex \ Range(port_map) :
              /\ port_types[p] = pre.self.port_types[p]
              /\ \A T \in DOMAIN port_metadata :
                    port_metadata[T][p] = pre.self.port_metadata[T][p]
        /\ (result = Some("Ok") /\ SameAsRegion) =>
              /\ \A n \in rewrite.subgraph.nodes :
                    op_types[node_map[Rank(rewrite.subgraph.nodes, n)]] = pre.self.op_types[n]
              /\ \A p \in RegionPorts :
                    port_types[port_map[Rank(RegionPorts, p)]] = pre.self.port_types[p]

C7_Witness ==
    /\ result = Some("Ok")
    /\ SameAsRegion
    /\ rewrite.subgraph.nodes # {}
    /\ \E n \in graph.nodes \ Range(node_map) : \E T \in DOMAIN node_metadata :
          /\ op_types[n] # Op_default
          /\ node_metadata[T][n] # MetaDefault(T)
    /\ \E old \in DOMAIN node_map : \E T \in DOMAIN node_metadata :
          node_metadata[T][node_map[old]] # pre.self.node_metadata[T][node_map[old]]

\* The engine's verdict on the rewrite, from the graph before the rewrite.
ValidBefore ==
    /\ rewrite.subgraph.nodes \subseteq pre.self.graph.nodes
    /\ Len(rewrite.subgraph.incoming) = Len(rewrite.replacement.dangling_inputs)
    /\ Len(rewrite.subgraph.outgoing) = Len(rewrite.replacement.dangling_outputs)

\* An entry of a table of self and the entry of the replacement it was
\* exchanged with hold each other's former values.
Exchanged(now, parts_now, was, parts_was, new, old) ==
    now[new] = parts_was[old] /\ parts_now[old] = was[new]

\* C8: apply_rewrite returns the engine's outcome, the error when the engine
\* refuses the rewrite and Ok when it applies it; after a refusal the graph
\* and every table of the target are as before; and at every point each entry
\* of a table is either exchanged with the replacement's or untouched.
C8_EngineOutcome ==
    pre # None =>
        /\ pc = "done" => (result = IF ValidBefore THEN Some("Ok") ELSE Some("RewriteError"))
        /\ pc # "done" => result = None
        /\ result = Some("RewriteError") => Self = pre.self /\ replacement = pre.parts
        /\ \A n \in NodeIndex :
              IF \E old \in DOMAIN node_map : node_map[old] = n
              THEN LET old == CHOOSE o \in DOMAIN node_map : node_map[o] = n
                   IN  /\ Exchanged(op_types, replacement.op_types,
                                    pre.self.op_types, pre.parts.op_types, n, old)
                       /\ \A T \in DOMAIN node_metadata \cap DOMAIN replacement.node_metadata :
                             Exchanged(node_metadata[T], replacement.node_metadata[T],
                                       pre.self.node_metadata[T], pre.parts.node_metadata[T],
                                       n, old)
              ELSE /\ op_types[n] = pre.self.op_types[n]
                   /\ \A T \in DOMAIN node_metadata :
                         node_metadata[T][n] = pre.self.node_metadata[T][n]
        /\ \A p \in PortIndex :
              IF \E old \in DOMAIN port_map : port_map[old] = p
              THEN LET old == CHOOSE o \in DOMAIN port_map : port_map[o] = p
                   IN  /\ Exchanged(port_types, replacement.port_types,
                                    pre.self.port_types, pre.parts.port_types, p, old)
                       /\ \A T \in DOMAIN port_metadata \cap DOMAIN replacement.port_metadata :
                             Exchanged(port_metadata[T], replacement.port_metadata[T],
                                       pre.self.port_metadata[T], pre.parts.port_metadata[T],
                                       p, old)
              ELSE /\ port_types[p] = pre.self.port_types[p]
                   /\ \A T \in DOMAIN port_metadata :
                         port_metadata[T][p] = pre.self.port_metadata[T][p]

C8_Witness ==
    /\ result = Some("RewriteError")
    /\ rewrite.subgraph.nodes # {}
    /\ rewrite.subgraph.nodes \subseteq graph.nodes
    /\ Len(rewrite.subgraph.incoming) # Len(rewrite.replacement.dangling_inputs)
    /\ \E T \in DOMAIN node_metadata : \E n \in graph.nodes :
          node_metadata[T][n] # MetaDefault(T)

(***************************************************************************)
(* circuit::Op::signature and Signature::num_ports, applied to every       *)
(* circuit operation.                                                      *)
(***************************************************************************)
InitSignature ==
    /\ Untouched
    /\ \E op \in CircuitOp : call = [fn |-> "input", op |-> op]

\* op.signature()
SignatureCall ==
    /\ call.fn = "input"
    /\ call' = [fn |-> "signature", op |-> call.op,
                sig |-> circuit_Op_signature(call.op)]
    /\ UNCHANGED <<gugvars, rwvars, ncalls>>

\* op.signature().num_ports()
NumPortsCall ==
    /\ call.fn = "signature"
    /\ call' = [fn |-> "num_ports", op |-> call.op, sig |-> call.sig,
                ports |-> num_ports(call.sig)]
    /\ UNCHANGED <<gugvars, rwvars, ncalls>>

NextSignature == SignatureCall \/ NumPortsCall

SpecSignature == InitSignature /\ [][NextSignature]_vars

\* C11: Copy{n_copies: n, typ: t}.signature() has no linear port, the one
\* nonlinear input t and n nonlinear outputs, each t, and its num_ports() is
\* (1, n); Const(v).signature() has no input and the one nonlinear output
\* v.get_type(), and its num_ports() is (0, 1).
C11_CopyConstSignature ==
    /\ (call.fn \in {"signature", "num_ports"} /\ call.op.tag = "Copy") =>
          /\ call.sig.linear = <<>>
          /\ call.sig.nonlinear[1] = <<call.op.typ>>
          /\ Len(call.sig.nonlinear[2]) = call.op.n_copies
          /\ \A i \in 1..Len(call.sig.nonlinear[2]) :
                call.sig.nonlinear[2][i] = call.op.typ
          /\ call.fn = "num_ports" => call.ports = <<1, call.op.n_copies>>
    /\ (call.fn \in {"signature", "num_ports"} /\ call.op.tag = "Const") =>
          /\ call.sig.linear = <<>>
          /\ call.sig.nonlinear[1] = <<>>
          /\ call.sig.nonlinear[2] = <<get_type(call.op.value)>>
          /\ call.fn = "num_ports" => call.ports = <<0, 1>>

C11_Witness ==
    /\ call.fn = "num_ports"
    /\ call.op.tag = "Copy"
    /\ call.op.n_copies = MaxCopies
    /\ call.op.typ = "Angle"
    /\ call.ports = <<1, MaxCopies>>

(***************************************************************************)
(* The events of apply_rewrite, one by one (SpecRewrite).                  *)
(***************************************************************************)
\* C12: each node-inserted(old, new) event exchanges the Op: afterwards the
\* target holds at new the Op the replacement parts held at old, and the
\* replacement parts hold at old the Op the target held at new; each
\* port-inserted(old, new) event exchanges the WireType likewise; and the
\* node-removed and port-removed events change no table of the target or of
\* the replacement.
C12_EventsExchange ==
    [][ /\ (call'.fn = "node_inserted" /\ node_map' # node_map) =>
              /\ op_types'[call'.new] = replacement.op_types[call'.old]
              /\ replacement'.op_types[call'.old] = op_types[call'.new]
              /\ \A n \in NodeIndex \ {call'.new} : op_types'[n] = op_types[n]
              /\ \A n \in NodeIndex \ {call'.old} :
                    replacement'.op_types[n] = replacement.op_types[n]
        /\ (call'.fn = "port_inserted" /\ port_map' # port_map) =>
              /\ port_types'[call'.new] = replacement.port_types[call'.old]
              /\ replacement'.port_types[call'.old] = port_types[call'.new]
              /\ \A p \in PortIndex \ {call'.new} : port_types'[p] = port_types[p]
              /\ \A p \in PortIndex \ {call'.old} :
                    replacement'.port_types[p] = replacement.port_types[p]
        /\ (call'.fn \in {"node_removed", "port_removed"} /\ graph' # graph) =>
              /\ op_types' = op_types
              /\ port_types' = port_types
              /\ node_metadata' = node_metadata
              /\ port_metadata' = port_metadata
              /\ replacement' = replacement
      ]_vars

C12_Witness ==
    /\ call.fn = "node_inserted"
    /\ call.old # call.new
    /\ Cardinality(DOMAIN node_map) = 1
    /\ pre.self.op_types[call.new] # Op_default
    /\ pre.self.op_types[call.new] # pre.parts.op_types[call.old]
    /\ op_types[call.new] = pre.parts.op_types[call.old]
    /\ replacement.op_types[call.old] = pre.self.op_types[call.new]
    /\ call.new \notin pre.self.graph.nodes \/ call.new \in rewrite.subgraph.nodes

====
